---- MODULE Spec2Model ----
(***************************************************************************)
(* Model of beancount/scripts/example.py, the generator of an example      *)
(* ledger: the cadence generators, the payroll engine, the periodic        *)
(* expenses, the balance-tracked transfers and the assembly and validation *)
(* pass of main.                                                           *)
(*                                                                         *)
(* Numbers.  A Decimal is a fixed-point integer counting 1/Unit of a       *)
(* currency unit (4 fractional digits); every division, every product      *)
(* with a fraction and every change of precision rounds half-even, as the  *)
(* decimal context does.  A number written into a transaction with         *)
(* '{:.2f}' is an integer number of hundredths.                            *)
(*                                                                         *)
(* Dates.  A date is a number of days since 2012-01-01 (a Sunday).         *)
(***************************************************************************)
EXTENDS Integers, Sequences, FiniteSets, TLC

\* ------------------------------------------------------------------------
\* Decimal arithmetic
\* ------------------------------------------------------------------------

\* One currency unit, in fixed-point steps.
Unit == 10000

\* D('120000'), D('7000'), ...: a literal number of whole units.
D(n) == n * Unit

ZERO == 0

Abs(x) == IF x < 0 THEN -x ELSE x

\* n / d rounded to the nearest integer, ties to the even one (d > 0).
DivHalfEven(n, d) ==
    LET a == Abs(n)
        q == a \div d
        r == a % d
        up == (2 * r > d) \/ (2 * r = d /\ q % 2 = 1)
        m == IF up THEN q + 1 ELSE q
    IN  IF n < 0 THEN -m ELSE m

\* x * (num / den), the product of a Decimal with a decimal fraction.
MulFrac(x, num, den) ==
    (x \div den) * num + DivHalfEven((x % den) * num, den)

RECURSIVE Pow10(_)
Pow10(k) == IF k = 0 THEN 1 ELSE 10 * Pow10(k - 1)

RECURSIVE Digits(_)
Digits(n) == IF n < 10 THEN 1 ELSE 1 + Digits(n \div 10)

\* The result of an operation under decimal.localcontext() with ctx.prec =
\* prec: x kept to prec significant digits.
RoundPrec(x, prec) ==
    LET nd == Digits(Abs(x))
    IN  IF nd <= prec THEN x
        ELSE DivHalfEven(x, Pow10(nd - prec)) * Pow10(nd - prec)

\* '{:.2f}'.format(x): x in hundredths.
Format2(x) == DivHalfEven(x, Unit \div 100)

\* math.ceil(x / 100) * 100 for x >= 0.
CeilHundred(x) == ((x + D(100) - 1) \div D(100)) * D(100)

Min(a, b) == IF a <= b THEN a ELSE b

\* ------------------------------------------------------------------------
\* Calendar
\* ------------------------------------------------------------------------

EpochYear == 2012

IsLeap(y) == (y % 4 = 0 /\ y % 100 # 0) \/ y % 400 = 0

DaysInYear(y) == IF IsLeap(y) THEN 366 ELSE 365

\* datetime.date(y, 1, 1), for y >= EpochYear.
RECURSIVE YearStart(_)
YearStart(y) == IF y <= EpochYear THEN 0 ELSE YearStart(y - 1) + DaysInYear(y - 1)

\* date.year, for a date on or after the epoch.
RECURSIVE YearFrom(_, _)
YearFrom(d, y) == IF d < YearStart(y + 1) THEN y ELSE YearFrom(d, y + 1)

Year(d) == YearFrom(d, EpochYear)

NoDate == -1

\* Default begin and end dates for the generation of data.
date_begin == YearStart(2012)
DefaultEnd == YearStart(2016)

\* rrule.TH: the epoch is a Sunday, so Thursdays are the days = 4 mod 7.
IsThursday(d) == d % 7 = 4

\* rrule.rrule(WEEKLY, byweekday=TH, dtstart=d): the first occurrence.
RECURSIVE FirstThursday(_)
FirstThursday(d) == IF IsThursday(d) THEN d ELSE FirstThursday(d + 1)

\* ------------------------------------------------------------------------
\* Constants of the script
\* ------------------------------------------------------------------------

annual_salary == D(120000)
annual_vacation_days == D(15)
rent_divisor == 50
rent_increment == 25

account_checking == "Assets:CC:Bank1:Checking"

NoneKey == -1

TableYears == 2000..2016

retirement_limits ==
    [y \in TableYears \cup {NoneKey} |->
        CASE y \in {2000, 2001} -> D(10500)
          [] y = 2002 -> D(11000)
          [] y = 2003 -> D(12000)
          [] y = 2004 -> D(13000)
          [] y = 2005 -> D(14000)
          [] y = 2006 -> D(15000)
          [] y \in {2007, 2008} -> D(15500)
          [] y \in {2009, 2010, 2011} -> D(16500)
          [] y = 2012 -> D(17000)
          [] y \in {2013, 2014} -> D(17500)
          [] y \in {2015, 2016} -> D(18000)
          [] OTHER -> D(18500)]

\* ------------------------------------------------------------------------
\* State
\* ------------------------------------------------------------------------

VARIABLES
    pc,                 \* the statement of main (or of the function under test) that runs next
    exc,                \* the exception that ended the run, "" while there is none
    date_end,           \* the end date handed to the generators
    pep479,             \* TRUE when the interpreter turns a StopIteration inside a generator into RuntimeError
    it,                 \* skipiter: the next date the weekly rrule iterator will return
    skip_started,       \* skipiter: TRUE once a value has been yielded
    date_prev,          \* generate_employment_income: date of the previous pay
    contrib_retirement, \* remaining retirement capacity of the year
    contrib_socsec,     \* remaining social security capacity of the year
    transactions,       \* the payroll transactions written so far
    txn,                \* the transaction emitted by the last step, <<>> when the step emitted none
    seq_fn,             \* cadence: the generator function that was called
    seq_args,           \* cadence: its arguments
    seq_pc,             \* cadence: where the generator stands
    seq_date,           \* cadence: the local variable date of date_seq
    date_iter,          \* cadence: what is left of the upstream iterator of delay_dates
    yielded,            \* cadence: the dates the generator has yielded
    exp_i,              \* the number of rent, electricity and internet expenses generated
    next_expense,       \* the generated expense the transfer engine has not read yet, or <<>>
    pay_i,              \* the index in transactions of the payroll the transfer engine reads next
    posting,            \* generate_outgoing_transfers: the posting of the current iteration
    balance,            \* generate_outgoing_transfers: the tracked balance in CCY
    pending,            \* the checking postings, with the transfers, that the final replay has not read yet
    chk_balance,        \* check_non_negative: the running balance in CCY
    nonneg,             \* check_non_negative: FALSE once its assertion has failed
    tax_year,           \* main: the next year of the loop over the tax years
    taxes,              \* main: the (year, entries) pairs of the tax years generated so far
    errors,             \* the collaborators that have returned a non-empty error list
    stdout,             \* what has been written to standard output
    exit_code,          \* the value main has returned, NoExit before
    oss,                \* generate_periodic_expenses: the transactions written to oss so far
    txn_amount,         \* generate_periodic_expenses: the amount of the current iteration
    entries,            \* generate_periodic_expenses: the directives it has returned
    inventory           \* check_non_negative: the balances of the accounts, one number per currency

env_vars == <<date_end, pep479>>
ctl_vars == <<pc, exc>>
income_vars == <<it, skip_started, date_prev, contrib_retirement, contrib_socsec,
                 transactions>>
cadence_vars == <<seq_fn, seq_args, seq_pc, seq_date, date_iter, yielded>>

bank_vars == <<exp_i, next_expense, pay_i, posting, balance, pending, chk_balance,
               nonneg>>
out_vars == <<tax_year, taxes, errors, stdout, exit_code>>
unit_vars == <<oss, txn_amount, entries, inventory>>

vars == <<env_vars, ctl_vars, income_vars, txn, cadence_vars, bank_vars, out_vars,
          unit_vars>>

\* ------------------------------------------------------------------------
\* skipiter
\* ------------------------------------------------------------------------

\* k calls of next(it) on the weekly iterator standing at t, which ends
\* after until: the iterator afterwards, or exhausted on the way.
RECURSIVE Advance(_, _, _)
Advance(t, k, until) ==
    IF k = 0 THEN [stop |-> FALSE, it |-> t]
    ELSE IF t > until THEN [stop |-> TRUE, it |-> t]
    ELSE Advance(t + 7, k - 1, until)

\* One resumption of skipiter(iterable, num_skip): the skipped elements
\* (none before the first value), then value = next(it).
skipiter(t, started, num_skip, until) ==
    LET a == IF started THEN Advance(t, num_skip - 1, until)
             ELSE [stop |-> FALSE, it |-> t]
    IN  IF a.stop \/ a.it > until
        THEN [stop |-> TRUE, value |-> NoDate, it |-> a.it]
        ELSE [stop |-> FALSE, value |-> a.it, it |-> a.it + 7]

\* ------------------------------------------------------------------------
\* generate_employment_income
\* ------------------------------------------------------------------------

\* D('1.12'): a literal with two fractional digits.
Dec(units, hundredths) == units * Unit + hundredths * (Unit \div 100)

biweekly_pay == DivHalfEven(annual_salary, 26)
gross == biweekly_pay

medicare == MulFrac(gross, 231, 10000)
federal == MulFrac(gross, 2303, 10000)
state == MulFrac(gross, 791, 10000)
city == MulFrac(gross, 379, 10000)
sdi == Dec(1, 12)

lifeinsurance == Dec(24, 32)
dental == Dec(2, 90)
medical == Dec(27, 38)
vision == Dec(42, 30)

fixed == medicare + federal + state + city + sdi + dental + medical + vision

vacation_hrs == RoundPrec(DivHalfEven(MulFrac(annual_vacation_days, 8, 1), 26), 4)

\* if not date_prev or date_prev.year != date.year
NewYear(prev, date) == prev = NoDate \/ Year(prev) # Year(date)

\* A tenth of the contribution: 2.5 percent of the gross pay.
retirement_uncapped_tenth == CeilHundred(MulFrac(gross, 25, 1000))

\* math.ceil((gross * D('0.25')) / 100) * 100
retirement_uncapped == CeilHundred(MulFrac(gross, 25, 100))

\* A contribution that ignores the remaining capacity.
RetirementUncapped(contrib) == retirement_uncapped

\* retirement = min(contrib_retirement, retirement_uncapped)
Retirement(contrib) == Min(contrib, retirement_uncapped)

socsec_uncapped == MulFrac(gross, 610, 10000)

\* socsec = min(contrib_socsec, socsec_uncapped)
SocSec(contrib) == Min(contrib, socsec_uncapped)

\* A deposit that also deducts the life insurance, which the template
\* balances on its own.
DepositLessInsurance(retirement, socsec) ==
    RoundPrec(RoundPrec(RoundPrec(RoundPrec(gross - retirement, 6) - fixed, 6)
                        - socsec, 6) - lifeinsurance, 6)

\* deposit = (gross - retirement - fixed - socsec) with ctx.prec = 6
Deposit(retirement, socsec) ==
    RoundPrec(RoundPrec(RoundPrec(gross - retirement, 6) - fixed, 6) - socsec, 6)

Posting(account, number, currency, mentions) ==
    [account |-> account, number |-> number, currency |-> currency,
     retirement |-> mentions]

\* The template with its numbers formatted; the field retirement tells
\* whether the line contains the word 'retirement'.
Template(deposit, retirement, socsec) ==
    << Posting(account_checking, Format2(deposit), "CCY", FALSE),
       Posting("Assets:CC:Retirement:Cash", Format2(retirement), "CCY", TRUE),
       Posting("Assets:CC:Federal:PreTax401k", -Format2(retirement), "DEFCCY", TRUE),
       Posting("Expenses:Taxes:Year:CC:Federal:PreTax401k", Format2(retirement), "DEFCCY", TRUE),
       Posting("Income:CC:Employer1:Salary", -Format2(gross), "CCY", FALSE),
       Posting("Income:CC:Employer1:GroupTermLife", -Format2(lifeinsurance), "CCY", FALSE),
       Posting("Expenses:Health:Life:GroupTermLife", Format2(lifeinsurance), "CCY", FALSE),
       Posting("Expenses:Health:Dental:Insurance", Format2(dental), "CCY", FALSE),
       Posting("Expenses:Health:Medical:Insurance", Format2(medical), "CCY", FALSE),
       Posting("Expenses:Health:Vision:Insurance", Format2(vision), "CCY", FALSE),
       Posting("Expenses:Taxes:Year:CC:Medicare", Format2(medicare), "CCY", FALSE),
       Posting("Expenses:Taxes:Year:CC:Federal", Format2(federal), "CCY", FALSE),
       Posting("Expenses:Taxes:Year:CC:StateNY", Format2(state), "CCY", FALSE),
       Posting("Expenses:Taxes:Year:CC:CityNYC", Format2(city), "CCY", FALSE),
       Posting("Expenses:Taxes:Year:CC:SDI", Format2(sdi), "CCY", FALSE),
       Posting("Expenses:Taxes:Year:CC:SocSec", Format2(socsec), "CCY", FALSE),
       Posting("Assets:CC:Employer1:Vacation", Format2(vacation_hrs), "VACCCY", FALSE),
       Posting("Income:CC:Employer1:Vacation", -Format2(vacation_hrs), "VACCCY", FALSE) >>

\* A removal of every line whose amount is zero.
RemoveZeroLine(line, retirement) ==
    line.number = 0 \/ (retirement = ZERO /\ line.retirement)

\* The lines removed from the template: those with the word 'retirement',
\* when the contribution is ZERO.
RemoveLine(line, retirement) == retirement = ZERO /\ line.retirement

PayrollLines(deposit, retirement, socsec) ==
    SelectSeq(Template(deposit, retirement, socsec),
              LAMBDA line : ~RemoveLine(line, retirement))

Transaction(kind, date, postings) ==
    [kind |-> kind, date |-> date, postings |-> postings]

\* The postings of a transaction on the given accounts.
Legs(t, accounts) == SelectSeq(t.postings, LAMBDA p : p.account \in accounts)

PayrollNext == skipiter(it, skip_started, 2, date_end)

\* One iteration of the payroll loop: the pay date's transaction.
PayrollStep ==
    /\ pc = "income"
    /\ ~PayrollNext.stop
    /\ LET date == PayrollNext.value
           reset == NewYear(date_prev, date)
       IN  /\ it' = PayrollNext.it
           /\ skip_started' = TRUE
           /\ IF reset /\ Year(date) \notin DOMAIN retirement_limits
              THEN /\ pc' = "raised"
                   /\ exc' = "KeyError"
                   /\ txn' = <<>>
                   /\ UNCHANGED <<date_prev, contrib_retirement, contrib_socsec,
                                  transactions>>
              ELSE LET limit_retirement ==
                           IF reset THEN retirement_limits[Year(date)]
                           ELSE contrib_retirement
                       limit_socsec == IF reset THEN D(7000) ELSE contrib_socsec
                       retirement == Retirement(limit_retirement)
                       socsec == SocSec(limit_socsec)
                       deposit == Deposit(retirement, socsec)
                       new == Transaction("payroll", date,
                                          PayrollLines(deposit, retirement, socsec))
                   IN  /\ date_prev' = date
                       /\ contrib_retirement' = limit_retirement - retirement
                       /\ contrib_socsec' = limit_socsec - socsec
                       /\ transactions' = Append(transactions, new)
                       /\ txn' = new
                       /\ UNCHANGED <<pc, exc>>
    /\ UNCHANGED <<env_vars, cadence_vars, bank_vars, out_vars, unit_vars>>

\* The weekly iterator is exhausted inside skipiter: the StopIteration
\* ends the loop, or reaches the caller as a RuntimeError (PEP 479).
PayrollExhausted ==
    /\ pc = "income"
    /\ PayrollNext.stop
    /\ it' = PayrollNext.it
    /\ IF pep479
       THEN pc' = "raised" /\ exc' = "RuntimeError"
       ELSE pc' = "parse_income" /\ exc' = exc
    /\ txn' = <<>>
    /\ UNCHANGED <<env_vars, skip_started, date_prev, contrib_retirement,
                   contrib_socsec, transactions, cadence_vars, bank_vars, out_vars,
                   unit_vars>>

\* ------------------------------------------------------------------------
\* date_seq and delay_dates
\* ------------------------------------------------------------------------

\* random.randint(a, b): the integers it can return.
randint(a, b) == a..b

\* The first assertion alone.
DateSeqAssertsPositive(days_min, days_max) == days_min > 0

\* assert days_min > 0; assert days_min <= days_max
DateSeqAsserts(days_min, days_max) == days_min > 0 /\ days_min <= days_max

\* A loop that also goes on at the end date.
DateSeqContinueInclusive(date, end) == date <= end

\* while date < date_end
DateSeqContinue(date, end) == date < end

\* The first next() on date_seq runs the body up to the loop.
DateSeqStart ==
    /\ seq_fn = "date_seq"
    /\ seq_pc = "start"
    /\ IF DateSeqAsserts(seq_args.min, seq_args.max)
       THEN seq_pc' = "loop" /\ seq_date' = seq_args.begin
       ELSE seq_pc' = "AssertionError" /\ seq_date' = seq_date
    /\ UNCHANGED <<seq_fn, seq_args, date_iter, yielded>>
    /\ UNCHANGED <<env_vars, ctl_vars, income_vars, txn, bank_vars, out_vars, unit_vars>>

\* One iteration of the loop of date_seq: a date is yielded (randint raises
\* ValueError on an empty range).
DateSeqYield ==
    /\ seq_fn = "date_seq"
    /\ seq_pc = "loop"
    /\ DateSeqContinue(seq_date, seq_args.end)
    /\ IF randint(seq_args.min, seq_args.max) = {}
       THEN seq_pc' = "ValueError" /\ UNCHANGED <<seq_date, yielded>>
       ELSE /\ \E nb_days_forward \in randint(seq_args.min, seq_args.max) :
                  /\ seq_date' = seq_date + nb_days_forward
                  /\ yielded' = Append(yielded, seq_date')
            /\ seq_pc' = seq_pc
    /\ UNCHANGED <<seq_fn, seq_args, date_iter>>
    /\ UNCHANGED <<env_vars, ctl_vars, income_vars, txn, bank_vars, out_vars, unit_vars>>

\* The loop condition of date_seq fails: the generator returns.
DateSeqStop ==
    /\ seq_fn = "date_seq"
    /\ seq_pc = "loop"
    /\ ~DateSeqContinue(seq_date, seq_args.end)
    /\ seq_pc' = "done"
    /\ UNCHANGED <<seq_fn, seq_args, seq_date, date_iter, yielded>>
    /\ UNCHANGED <<env_vars, ctl_vars, income_vars, txn, bank_vars, out_vars, unit_vars>>

\* One iteration of delay_dates: randint raises ValueError on an empty
\* range, otherwise the delayed date is yielded.
DelayDatesYield ==
    /\ seq_fn = "delay_dates"
    /\ seq_pc \in {"start", "loop"}
    /\ date_iter # <<>>
    /\ date_iter' = Tail(date_iter)
    /\ IF randint(seq_args.min, seq_args.max) = {}
       THEN seq_pc' = "ValueError" /\ yielded' = yielded
       ELSE /\ seq_pc' = "loop"
            /\ \E delay \in randint(seq_args.min, seq_args.max) :
                  yielded' = Append(yielded, Head(date_iter) + delay)
    /\ UNCHANGED <<seq_fn, seq_args, seq_date>>
    /\ UNCHANGED <<env_vars, ctl_vars, income_vars, txn, bank_vars, out_vars, unit_vars>>

\* The upstream iterator of delay_dates is exhausted: the generator returns.
DelayDatesStop ==
    /\ seq_fn = "delay_dates"
    /\ seq_pc \in {"start", "loop"}
    /\ date_iter = <<>>
    /\ seq_pc' = "done"
    /\ UNCHANGED <<seq_fn, seq_args, seq_date, date_iter, yielded>>
    /\ UNCHANGED <<env_vars, ctl_vars, income_vars, txn, bank_vars, out_vars, unit_vars>>

\* ------------------------------------------------------------------------
\* parse
\* ------------------------------------------------------------------------

\* A parse that goes on whatever the parser returned.
parseIgnoringErrors(errs, next) == [pc |-> next, exc |-> ""]

\* parse(string): where main stands after the call, given whether the parser
\* returned errors.
parse(errs, next) ==
    IF errs THEN [pc |-> "raised", exc |-> "ValueError"]
    ELSE [pc |-> next, exc |-> ""]

\* The statements of main, in order.  A step parse_x is the call of parse
\* that ends the generator of the directives x.
MainSteps ==
    << "income", "parse_income", "banking", "parse_rent", "parse_electricity",
       "parse_internet", "parse_credit_preamble", "parse_restaurant",
       "parse_groceries", "parse_subway", "parse_transfers", "parse_tax_preamble",
       "taxes", "parse_banking", "parse_retirement", "parse_investment",
       "parse_expenses", "parse_equity", "write", "validate", "return", "done" >>

StepIndex(step) == CHOOSE i \in 1..Len(MainSteps) : MainSteps[i] = step

After(step) == MainSteps[StepIndex(step) + 1]

ParseSteps ==
    {"parse_income", "parse_rent", "parse_electricity", "parse_internet",
     "parse_credit_preamble", "parse_restaurant", "parse_groceries",
     "parse_subway", "parse_transfers", "parse_tax_preamble", "parse_banking",
     "parse_retirement", "parse_investment", "parse_expenses", "parse_equity"}

\* A generator hands its text to parse; the parser reports errors or not.
Parse ==
    /\ pc \in ParseSteps
    /\ \E errs \in BOOLEAN :
          /\ pc' = parse(errs, After(pc)).pc
          /\ exc' = parse(errs, After(pc)).exc
          /\ errors' = IF errs THEN errors \cup {"parser"} ELSE errors
    /\ txn' = <<>>
    /\ UNCHANGED <<env_vars, income_vars, cadence_vars, bank_vars, unit_vars, tax_year, taxes, stdout,
                   exit_code>>

\* ------------------------------------------------------------------------
\* generate_periodic_expenses over delay_dates(rrule(MONTHLY))
\* ------------------------------------------------------------------------

DaysInMonth(y, month) ==
    IF month = 2 THEN (IF IsLeap(y) THEN 29 ELSE 28)
    ELSE IF month \in {4, 6, 9, 11} THEN 30 ELSE 31

\* The m-th date of rrule.rrule(MONTHLY, dtstart=date_begin), m = 0, 1, ...
RECURSIVE MonthStart(_)
MonthStart(m) ==
    IF m = 0 THEN date_begin
    ELSE MonthStart(m - 1) + DaysInMonth(EpochYear + ((m - 1) \div 12), ((m - 1) % 12) + 1)

\* rent_amount = (int(annual_salary / rent_divisor) / rent_increment) * rent_increment
rent_amount ==
    MulFrac(DivHalfEven(D(annual_salary \div (rent_divisor * Unit)), rent_increment),
            rent_increment, 1)

\* The largest deviation of random.normalvariate(80, 0.10) from 80 that is
\* modelled, in 1/Unit.
MaxJitter == 4951

\* The three monthly expenses paid from the checking account: the range of
\* the billing delay, the credited account and the values the amount
\* generator can return.
BankingExpenses ==
    << [delay_days_min |-> 2, delay_days_max |-> 5,
        account_to |-> "Expenses:Home:Rent",
        variates |-> {rent_amount}],
       [delay_days_min |-> 7, delay_days_max |-> 8,
        account_to |-> "Expenses:Home:Electricity",
        variates |-> {D(65)}],
       [delay_days_min |-> 20, delay_days_max |-> 22,
        account_to |-> "Expenses:Home:Internet",
        variates |-> {D(80) - MaxJitter, D(80), D(80) + MaxJitter}] >>

\* A reading of "-" followed by the text of number that takes a second "-"
\* for the first.
MinusOnce(number) == -Abs(number)

\* The number the parser reads from "-" followed by the text of number,
\* which itself starts with "-" when number is negative.
Minus(number) == -number

\* The transaction generate_periodic_expenses writes for one date: the
\* legs "-AMOUNT CCY" and "AMOUNT CCY", AMOUNT being '{:.2f}' of the amount.
PeriodicExpense(date, account_from, account_to, amount) ==
    Transaction("expense", date,
        << Posting(account_from, Minus(Format2(amount)), "CCY", FALSE),
           Posting(account_to, Format2(amount), "CCY", FALSE) >>)

\* The monthly rrule has no date left for the expense generated next.
ExpensesExhausted == MonthStart(exp_i \div 3) > date_end

\* One iteration of generate_periodic_expenses: the next expense of the
\* checking account, in the order of the dates (rent, electricity and
\* internet of a month, then the next month).
GenExpense ==
    /\ pc = "banking"
    /\ next_expense = <<>>
    /\ ~ExpensesExhausted
    /\ LET e == BankingExpenses[(exp_i % 3) + 1]
       IN  \E delay \in randint(e.delay_days_min, e.delay_days_max),
              variate \in e.variates :
                /\ next_expense' = PeriodicExpense(MonthStart(exp_i \div 3) + delay,
                                                   account_checking, e.account_to,
                                                   variate)
                /\ txn' = next_expense'
    /\ exp_i' = exp_i + 1
    /\ UNCHANGED <<pay_i, posting, balance, pending, chk_balance, nonneg>>
    /\ UNCHANGED <<env_vars, ctl_vars, income_vars, cadence_vars, out_vars, unit_vars>>

\* ------------------------------------------------------------------------
\* generate_outgoing_transfers
\* ------------------------------------------------------------------------

\* A number with two fractional digits read back as a Decimal.
Num(hundredths) == hundredths * (Unit \div 100)

transfer_minimum == rent_amount + D(100)
transfer_threshold == D(4000)

\* A test against the threshold alone.
TransferDueAboveThreshold(current_amount) == current_amount > transfer_threshold

\* if current_amount > (transfer_minimum + transfer_threshold)
TransferDue(current_amount) == current_amount > transfer_minimum + transfer_threshold

\* The transaction that moves transfer_amount out of the account.
Transfer(date, account, account_out, transfer_amount) ==
    Transaction("transfer", date,
        << Posting(account, -Format2(transfer_amount), "CCY", FALSE),
           Posting(account_out, Format2(transfer_amount), "CCY", FALSE) >>)

\* realization: the posting of an entry on the account, with its date.
RealPosting(t, account) ==
    [date |-> t.date, number |-> Legs(t, {account})[1].number]

Infinity == 1000000

NextPayDate == IF pay_i <= Len(transactions) THEN transactions[pay_i].date ELSE Infinity
NextExpenseDate == IF next_expense # <<>> THEN next_expense.date ELSE Infinity

\* The date of the entry the transfer engine reads next.
Frontier == Min(NextPayDate, NextExpenseDate)

\* The expense generated next, if any, is known.
ExpenseKnown == next_expense # <<>> \/ ExpensesExhausted

\* The indices of the postings the final replay can read next: those of the
\* earliest date, once no entry of that date can still be generated.
Checkable ==
    {i \in 1..Len(pending) :
        /\ pending[i].date < Frontier
        /\ \A j \in 1..Len(pending) : pending[i].date <= pending[j].date}

Remove(seq, i) == SubSeq(seq, 1, i - 1) \o SubSeq(seq, i + 1, Len(seq))

\* One iteration of the loop of generate_outgoing_transfers: the next
\* posting of the sorted entries on the checking account (entries of one
\* date in either order), and the transfer when the balance is beyond the
\* threshold.
TransferStep ==
    /\ pc = "banking"
    /\ ExpenseKnown
    /\ Checkable = {}
    /\ Frontier < Infinity
    /\ \E source \in {"payroll", "expense"} :
          /\ source = "payroll" => NextPayDate = Frontier
          /\ source = "expense" => NextExpenseDate = Frontier
          /\ LET entry == IF source = "payroll" THEN transactions[pay_i]
                          ELSE next_expense
                 real == RealPosting(entry, account_checking)
                 current_amount == balance + Num(real.number)
                 transfer_amount == current_amount - transfer_minimum
                 transfer == Transfer(real.date + 1, account_checking,
                                      "Assets:CC:Investment:Cash", transfer_amount)
             IN  /\ posting' = real
                 /\ pay_i' = IF source = "payroll" THEN pay_i + 1 ELSE pay_i
                 /\ next_expense' = IF source = "expense" THEN <<>> ELSE next_expense
                 /\ IF TransferDue(current_amount)
                    THEN /\ txn' = transfer
                         /\ balance' = current_amount - transfer_amount
                         /\ pending' = pending \o
                               <<real, RealPosting(transfer, account_checking)>>
                    ELSE /\ txn' = <<>>
                         /\ balance' = current_amount
                         /\ pending' = Append(pending, real)
    /\ UNCHANGED <<exp_i, chk_balance, nonneg>>
    /\ UNCHANGED <<env_vars, ctl_vars, income_vars, cadence_vars, out_vars, unit_vars>>

\* ------------------------------------------------------------------------
\* check_non_negative
\* ------------------------------------------------------------------------

\* assert all(amt.number > ZERO for amt in balance.get_amounts())
NonNegative(amount) == amount > ZERO

\* One iteration of the loop of check_non_negative over the loaded entries:
\* the next posting on the checking account in the order of the dates
\* (postings of one date in any order).  The replay reads what the
\* generators have produced; it is carried along with them, one date
\* behind, and its verdict is used when validate_output runs.
CheckStep ==
    /\ pc = "banking"
    /\ ExpenseKnown
    /\ \E i \in Checkable :
          /\ chk_balance' = chk_balance + Num(pending[i].number)
          /\ nonneg' = (nonneg /\ NonNegative(chk_balance'))
          /\ pending' = Remove(pending, i)
    /\ txn' = <<>>
    /\ UNCHANGED <<exp_i, next_expense, pay_i, posting, balance>>
    /\ UNCHANGED <<env_vars, ctl_vars, income_vars, cadence_vars, out_vars, unit_vars>>

\* All entries of the checking account are generated and replayed.
BankingDone ==
    /\ pc = "banking"
    /\ ExpensesExhausted
    /\ Frontier = Infinity
    /\ pending = <<>>
    /\ pc' = After(pc)
    /\ txn' = <<>>
    /\ UNCHANGED <<exc, env_vars, income_vars, cadence_vars, bank_vars, out_vars, unit_vars>>

\* ------------------------------------------------------------------------
\* generate_tax_accounts
\* ------------------------------------------------------------------------

\* The transaction "Allowed contributions for one year".
AllowedContributions(year, limit) ==
    Transaction("allowed", YearStart(year),
        << Posting("Income:CC:Federal:PreTax401k", -Format2(limit), "DEFCCY", FALSE),
           Posting("Assets:CC:Federal:PreTax401k", Format2(limit), "DEFCCY", FALSE) >>)

\* The directive "balance Assets:CC:Federal:PreTax401k  0 DEFCCY".
BalanceAssertion(year) ==
    [kind |-> "balance", date |-> YearStart(year),
     account |-> "Assets:CC:Federal:PreTax401k", number |-> 0, currency |-> "DEFCCY"]

\* The directives of one tax year that carry a date and an amount; the
\* open directives are left out.
generate_tax_accounts(year) ==
    << BalanceAssertion(year), AllowedContributions(year, retirement_limits[year]) >>

\* The years up to the year of date_end, that year included.
TaxYearsInclusive == Year(date_begin)..Year(date_end)

\* range(date_begin.year, date_end.year)
TaxYears == Year(date_begin)..(Year(date_end) - 1)

\* One iteration of the loop over range(date_begin.year, date_end.year).
TaxAccounts ==
    /\ pc = "taxes"
    /\ tax_year \in TaxYears
    /\ IF tax_year \notin DOMAIN retirement_limits
       THEN /\ pc' = "raised"
            /\ exc' = "KeyError"
            /\ txn' = <<>>
            /\ UNCHANGED <<tax_year, taxes, errors>>
       ELSE /\ txn' = generate_tax_accounts(tax_year)[2]
            /\ tax_year' = tax_year + 1
            /\ \E errs \in BOOLEAN :
                  /\ pc' = parse(errs, pc).pc
                  /\ exc' = parse(errs, pc).exc
                  /\ errors' = IF errs THEN errors \cup {"parser"} ELSE errors
                  /\ taxes' = IF errs THEN taxes
                              ELSE Append(taxes, [year |-> tax_year,
                                                  entries |-> generate_tax_accounts(tax_year)])
    /\ UNCHANGED <<env_vars, income_vars, cadence_vars, bank_vars, unit_vars, stdout, exit_code>>

TaxAccountsDone ==
    /\ pc = "taxes"
    /\ tax_year \notin TaxYears
    /\ pc' = After(pc)
    /\ txn' = <<>>
    /\ UNCHANGED <<exc, env_vars, income_vars, cadence_vars, bank_vars, out_vars, unit_vars>>

\* ------------------------------------------------------------------------
\* main: output and validation
\* ------------------------------------------------------------------------

NoExit == -1

\* sys.stdout.write(contents)
WriteOutput ==
    /\ pc = "write"
    /\ stdout' = "contents"
    /\ pc' = After(pc)
    /\ txn' = <<>>
    /\ UNCHANGED <<exc, env_vars, income_vars, cadence_vars, bank_vars, unit_vars, tax_year, taxes,
                   errors, exit_code>>

\* validate_output: the loader returns its errors, which are logged and
\* dropped; then check_non_negative runs on the loaded entries.
ValidateOutput ==
    /\ pc = "validate"
    /\ \E errs \in BOOLEAN :
          errors' = IF errs THEN errors \cup {"loader"} ELSE errors
    /\ IF nonneg
       THEN pc' = After(pc) /\ exc' = exc
       ELSE pc' = "raised" /\ exc' = "AssertionError"
    /\ txn' = <<>>
    /\ UNCHANGED <<env_vars, income_vars, cadence_vars, bank_vars, unit_vars, tax_year, taxes, stdout,
                   exit_code>>

\* return 0
Return ==
    /\ pc = "return"
    /\ exit_code' = 0
    /\ pc' = After(pc)
    /\ txn' = <<>>
    /\ UNCHANGED <<exc, env_vars, income_vars, cadence_vars, bank_vars, unit_vars, tax_year, taxes,
                   errors, stdout>>

\* ------------------------------------------------------------------------
\* Specifications
\* ------------------------------------------------------------------------

\* The end dates the payroll engine is run with.
EndDates == {DefaultEnd, YearStart(2018)}

IncomeInit ==
    /\ it = FirstThursday(date_begin)
    /\ skip_started = FALSE
    /\ date_prev = NoDate
    /\ contrib_retirement = ZERO
    /\ contrib_socsec = ZERO
    /\ transactions = <<>>
    /\ txn = <<>>

CadenceIdle ==
    /\ seq_fn = ""
    /\ seq_args = <<>>
    /\ seq_pc = ""
    /\ seq_date = NoDate
    /\ date_iter = <<>>
    /\ yielded = <<>>

\* An opening balance of the rent alone.
PadWithoutMargin == [date |-> date_begin, number |-> Format2(rent_amount)]

\* generate_banking: the pad of the checking account makes its balance
\* rent_amount * 1.10 on the day after date_begin, before which no other
\* posting on the account is dated.
Pad == [date |-> date_begin, number |-> Format2(MulFrac(rent_amount, 110, 100))]

BankInit ==
    /\ exp_i = 0
    /\ next_expense = <<>>
    /\ pay_i = 1
    /\ posting = <<>>
    /\ balance = ZERO
    /\ pending = <<Pad>>
    /\ chk_balance = ZERO
    /\ nonneg = TRUE

OutInit ==
    /\ tax_year = Year(date_begin)
    /\ taxes = <<>>
    /\ errors = {}
    /\ stdout = ""
    /\ exit_code = NoExit

UnitIdle ==
    /\ oss = <<>>
    /\ txn_amount = ZERO
    /\ entries = <<>>
    /\ inventory = <<>>

\* main, with the defaults of the script.
Init ==
    /\ pc = "income"
    /\ exc = ""
    /\ date_end = DefaultEnd
    /\ pep479 \in BOOLEAN
    /\ IncomeInit
    /\ CadenceIdle
    /\ BankInit
    /\ OutInit
    /\ UnitIdle

Next ==
    \/ PayrollStep
    \/ PayrollExhausted
    \/ Parse
    \/ GenExpense
    \/ TransferStep
    \/ CheckStep
    \/ BankingDone
    \/ TaxAccounts
    \/ TaxAccountsDone
    \/ WriteOutput
    \/ ValidateOutput
    \/ Return

Spec == Init /\ [][Next]_vars

\* generate_employment_income alone, over several end dates.
InitPayroll ==
    /\ pc = "income"
    /\ exc = ""
    /\ date_end \in EndDates
    /\ pep479 \in BOOLEAN
    /\ IncomeInit
    /\ CadenceIdle
    /\ BankInit
    /\ OutInit
    /\ UnitIdle

NextPayroll == PayrollStep \/ PayrollExhausted

SpecPayroll == InitPayroll /\ [][NextPayroll]_vars

\* Bounds of the cadence runs: the largest begin date, end date and step.
MaxBegin == 2
MaxEnd == 5
MaxDays == 3

\* The upstream sequences delay_dates is run on: increasing dates.
Upstreams ==
    {<<>>} \cup {<<a>> : a \in 0..MaxBegin}
           \cup {<<a, b>> : a \in 0..MaxBegin, b \in (MaxBegin + 1)..MaxEnd}

InitCadence ==
    /\ pc = "cadence"
    /\ exc = ""
    /\ date_end = DefaultEnd
    /\ pep479 = FALSE
    /\ IncomeInit
    /\ BankInit
    /\ OutInit
    /\ UnitIdle
    /\ seq_pc = "start"
    /\ seq_date = NoDate
    /\ yielded = <<>>
    /\ \/ /\ seq_fn = "date_seq"
          /\ date_iter = <<>>
          /\ seq_args \in [begin : 0..MaxBegin, end : 0..MaxEnd,
                           min : 0..MaxDays, max : 0..MaxDays]
       \/ /\ seq_fn = "delay_dates"
          /\ date_iter \in Upstreams
          /\ \E lo \in 0..MaxDays, hi \in 0..MaxDays :
                seq_args = [begin |-> NoDate, end |-> NoDate, min |-> lo, max |-> hi,
                            upstream |-> date_iter]

NextCadence ==
    \/ DateSeqStart
    \/ DateSeqYield
    \/ DateSeqStop
    \/ DelayDatesYield
    \/ DelayDatesStop

SpecCadence == InitCadence /\ [][NextCadence]_vars

\* The consumer's for loop keeps asking the generator for its next date.
FairSpecCadence == SpecCadence /\ WF_vars(NextCadence)

\* ------------------------------------------------------------------------
\* generate_periodic_expenses alone
\* ------------------------------------------------------------------------

\* Bounds of the expense runs: the number of dates, and the largest amount
\* in ten-thousandths.
MaxDates == 3
MaxAmount == 12355

\* The date iterators the generator is run on: increasing dates, as
\* date_seq, delay_dates and the rrules give them.
RECURSIVE Increasing(_)
Increasing(dates) ==
    \/ Len(dates) <= 1
    \/ dates[1] < dates[2] /\ Increasing(Tail(dates))

DateIters ==
    {dates \in UNION {[1..n -> 0..MaxEnd] : n \in 0..MaxDates} : Increasing(dates)}

\* What amount_generator() returns: amounts below, at and above zero, with
\* digits beyond the second and ties of the rounding.
Variates == {-MaxAmount, -D(1), -50, ZERO, 50, 150, D(1), MaxAmount}

\* One iteration of the loop over date_iter.
ExpenseStep ==
    /\ pc = "expenses"
    /\ date_iter # <<>>
    /\ \E variate \in Variates : txn_amount' = variate
    /\ oss' = Append(oss, PeriodicExpense(Head(date_iter), seq_args.account_from,
                                         seq_args.account_to, txn_amount'))
    /\ date_iter' = Tail(date_iter)
    /\ txn' = <<>>
    /\ UNCHANGED <<seq_fn, seq_args, seq_pc, seq_date, yielded, entries, inventory>>
    /\ UNCHANGED <<env_vars, ctl_vars, income_vars, bank_vars, out_vars>>

\* return parse(oss.getvalue())
ExpenseReturn ==
    /\ pc = "expenses"
    /\ date_iter = <<>>
    /\ \E errs \in BOOLEAN :
          /\ pc' = parse(errs, "returned").pc
          /\ exc' = parse(errs, "returned").exc
          /\ entries' = IF errs THEN entries ELSE oss
    /\ txn' = <<>>
    /\ UNCHANGED <<seq_fn, seq_args, seq_pc, seq_date, date_iter, yielded, oss,
                   txn_amount, inventory>>
    /\ UNCHANGED <<env_vars, income_vars, bank_vars, out_vars>>

InitExpenses ==
    /\ pc = "expenses"
    /\ exc = ""
    /\ date_end = DefaultEnd
    /\ pep479 = FALSE
    /\ IncomeInit
    /\ BankInit
    /\ OutInit
    /\ UnitIdle
    /\ seq_fn = "generate_periodic_expenses"
    /\ seq_pc = ""
    /\ seq_date = NoDate
    /\ yielded = <<>>
    /\ date_iter \in DateIters
    /\ seq_args = [date_iter |-> date_iter, account_from |-> account_checking,
                   account_to |-> "Expenses:Home:Rent"]

NextExpenses == ExpenseStep \/ ExpenseReturn

SpecExpenses == InitExpenses /\ [][NextExpenses]_vars

\* ------------------------------------------------------------------------
\* check_non_negative alone
\* ------------------------------------------------------------------------

\* Bounds of the replay runs: the number of entries of the account, and the
\* largest number of a posting in hundredths.
MaxPostings == 3
MaxNumber == 2

\* inventory.Inventory(): no position.
Inventory == <<>>

\* balance.add_position(position): the number is added to the number held
\* in the currency of the position.
add_position(inv, position) ==
    [c \in DOMAIN inv \cup {position.currency} |->
        (IF c \in DOMAIN inv THEN inv[c] ELSE ZERO)
        + (IF c = position.currency THEN Num(position.number) ELSE ZERO)]

\* Amounts of the currencies whose number is not zero only.
get_amounts_nonzero(inv) == {inv[c] : c \in {k \in DOMAIN inv : inv[k] # ZERO}}

\* balance.get_amounts(): one amount per currency held.
get_amounts(inv) == {inv[c] : c \in DOMAIN inv}

\* What realization gives as the postings of an account: postings, and
\* the other directives that name the account.
RealPostings ==
    [kind : {"Posting"}, number : (-MaxNumber)..MaxNumber, currency : {"CCY", "DEFCCY"}]
        \cup {[kind |-> "Open", number |-> 0, currency |-> ""]}

\* One iteration of the loop over real_account.postings.
CheckPosting ==
    /\ pc = "check"
    /\ pending # <<>>
    /\ pending' = Tail(pending)
    /\ posting' = Head(pending)
    /\ IF posting'.kind = "Posting"
       THEN /\ inventory' = add_position(inventory, posting')
            /\ IF \A amt \in get_amounts(inventory') : NonNegative(amt)
               THEN UNCHANGED <<pc, exc>>
               ELSE pc' = "raised" /\ exc' = "AssertionError"
       ELSE UNCHANGED <<pc, exc, inventory>>
    /\ txn' = <<>>
    /\ UNCHANGED <<exp_i, next_expense, pay_i, balance, chk_balance, nonneg>>
    /\ UNCHANGED <<oss, txn_amount, entries>>
    /\ UNCHANGED <<env_vars, income_vars, cadence_vars, out_vars>>

\* The loop has read every posting.
CheckReturn ==
    /\ pc = "check"
    /\ pending = <<>>
    /\ pc' = "returned"
    /\ txn' = <<>>
    /\ UNCHANGED <<exc, env_vars, income_vars, cadence_vars, bank_vars, out_vars,
                   unit_vars>>

InitCheck ==
    /\ pc = "check"
    /\ exc = ""
    /\ date_end = DefaultEnd
    /\ pep479 = FALSE
    /\ IncomeInit
    /\ OutInit
    /\ exp_i = 0
    /\ next_expense = <<>>
    /\ pay_i = 1
    /\ posting = <<>>
    /\ balance = ZERO
    /\ chk_balance = ZERO
    /\ nonneg = TRUE
    /\ oss = <<>>
    /\ txn_amount = ZERO
    /\ entries = <<>>
    /\ inventory = Inventory
    /\ seq_fn = "check_non_negative"
    /\ seq_pc = ""
    /\ seq_date = NoDate
    /\ yielded = <<>>
    /\ date_iter = <<>>
    /\ pending \in UNION {[1..n -> RealPostings] : n \in 0..MaxPostings}
    /\ seq_args = [postings |-> pending]

NextCheck == CheckPosting \/ CheckReturn

SpecCheck == InitCheck /\ [][NextCheck]_vars

\* ------------------------------------------------------------------------
\* skipiter alone
\* ------------------------------------------------------------------------

\* Bounds of the skipiter runs: the last day of the weekly iterable, and
\* the largest num_skip.
MaxUntil == 45
MaxSkip == 3

\* One resumption of the generator that yields a value.
SkipIterYield ==
    /\ pc = "skipiter"
    /\ LET r == skipiter(it, skip_started, seq_args.num_skip, date_end)
       IN  /\ ~r.stop
           /\ it' = r.it
           /\ skip_started' = TRUE
           /\ yielded' = Append(yielded, r.value)
    /\ txn' = <<>>
    /\ UNCHANGED <<date_prev, contrib_retirement, contrib_socsec, transactions>>
    /\ UNCHANGED <<seq_fn, seq_args, seq_pc, seq_date, date_iter>>
    /\ UNCHANGED <<env_vars, ctl_vars, bank_vars, out_vars, unit_vars>>

\* One resumption in which next(it) raises StopIteration, at line 180 or at
\* line 183: the generator ends, or the StopIteration is turned into a
\* RuntimeError (PEP 479).
SkipIterExhausted ==
    /\ pc = "skipiter"
    /\ LET r == skipiter(it, skip_started, seq_args.num_skip, date_end)
       IN  /\ r.stop
           /\ it' = r.it
    /\ IF pep479
       THEN pc' = "raised" /\ exc' = "RuntimeError"
       ELSE pc' = "returned" /\ exc' = exc
    /\ txn' = <<>>
    /\ UNCHANGED <<skip_started, date_prev, contrib_retirement, contrib_socsec,
                   transactions>>
    /\ UNCHANGED <<env_vars, cadence_vars, bank_vars, out_vars, unit_vars>>

\* skipiter on the Thursdays from date_begin until date_end.
InitSkip ==
    /\ pc = "skipiter"
    /\ exc = ""
    /\ date_end \in 0..MaxUntil
    /\ pep479 \in BOOLEAN
    /\ IncomeInit
    /\ BankInit
    /\ OutInit
    /\ UnitIdle
    /\ seq_fn = "skipiter"
    /\ seq_pc = ""
    /\ seq_date = NoDate
    /\ yielded = <<>>
    /\ date_iter = <<>>
    /\ seq_args \in [num_skip : 1..MaxSkip]

NextSkip == SkipIterYield \/ SkipIterExhausted

SpecSkip == InitSkip /\ [][NextSkip]_vars

\* ------------------------------------------------------------------------
\* Properties of the payroll engine
\* ------------------------------------------------------------------------

RECURSIVE SumNumbers(_)
SumNumbers(postings) ==
    IF postings = <<>> THEN 0
    ELSE Head(postings).number + SumNumbers(Tail(postings))

RetirementAccounts ==
    {"Assets:CC:Retirement:Cash", "Assets:CC:Federal:PreTax401k",
     "Expenses:Taxes:Year:CC:Federal:PreTax401k"}

\* The retirement contributions, in hundredths, of the payroll transactions
\* among txns that are dated in year y.
RECURSIVE Contributions(_, _)
Contributions(txns, y) ==
    IF txns = <<>> THEN 0
    ELSE (IF Year(Head(txns).date) = y
          THEN SumNumbers(Legs(Head(txns), {"Assets:CC:Retirement:Cash"}))
          ELSE 0) + Contributions(Tail(txns), y)

PayYears == {Year(transactions[i].date) : i \in 1..Len(transactions)}

\* A step that emits the payroll transaction of a later pay date of the
\* year of the previous pay date.
LaterPayOfYear ==
    /\ date_prev # NoDate
    /\ date_prev' # date_prev
    /\ Year(date_prev') = Year(date_prev)
    /\ txn' # <<>>

C3Inv ==
    /\ contrib_retirement >= 0
    /\ \A y \in PayYears :
          Contributions(transactions, y) <= Format2(retirement_limits[y])

C3Step ==
    LaterPayOfYear =>
        /\ contrib_retirement' <= contrib_retirement
        /\ contrib_retirement = 0 => Legs(txn', RetirementAccounts) = <<>>

\* C3: in every calendar year the retirement contributions of the payroll
\* transactions never add up to more than the year's limit; the remaining
\* capacity is never negative and never grows between two pay dates of a
\* year; once it is zero the later payroll transactions of the year have
\* none of the three retirement legs.
C3_RetirementCapped == []C3Inv /\ [][C3Step]_vars

\* The capacity of the year is used up and a later pay of the year has been
\* written without retirement legs.
C3_Witness ==
    /\ txn # <<>>
    /\ contrib_retirement = 0
    /\ Legs(txn, RetirementAccounts) = <<>>
    /\ Contributions(transactions, Year(txn.date))
          = Format2(retirement_limits[Year(txn.date)])

\* retirement_limits.get(year, retirement_limits[None]): the limit of a year
\* with the default for the years the table does not list.
LimitOrDefault(y) ==
    IF y \in TableYears THEN retirement_limits[y] ELSE retirement_limits[NoneKey]

C7Step ==
    (pc = "income" /\ ~PayrollNext.stop) =>
        LET date == PayrollNext.value
            reset == NewYear(date_prev, date)
            cap_retirement == IF reset THEN LimitOrDefault(Year(date))
                              ELSE contrib_retirement
            cap_socsec == IF reset THEN D(7000) ELSE contrib_socsec
        IN  /\ exc' = ""
            /\ contrib_retirement' = cap_retirement - Retirement(cap_retirement)
            /\ contrib_socsec' = cap_socsec - SocSec(cap_socsec)

\* C7: at the first pay date of each calendar year, and at no other pay
\* date, the retirement capacity is reset to the year's limit of the table,
\* to the default limit when the table does not list the year, and the
\* social security capacity to 7000.
C7_ResetToLimitOrDefault == [][C7Step]_vars

SocSecAccounts == {"Expenses:Taxes:Year:CC:SocSec"}

\* C8, as claimed: once the social security capacity of a year is zero, the
\* later payroll transactions of the year have no social security leg.
C8_SocSecLegAbsent ==
    [][(LaterPayOfYear /\ contrib_socsec = 0)
         => Legs(txn', SocSecAccounts) = <<>>]_vars

\* C8, amended: once the social security capacity of a year is zero, the
\* later payroll transactions of the year keep their social security leg,
\* with the amount 0.00.
C8_SocSecLegZero ==
    [][(LaterPayOfYear /\ contrib_socsec = 0)
         => /\ Len(Legs(txn', SocSecAccounts)) = 1
            /\ Legs(txn', SocSecAccounts)[1].number = 0]_vars

\* A payroll written after the social security capacity was used up.
C8_Witness ==
    /\ txn # <<>>
    /\ contrib_socsec = 0
    /\ Len(Legs(txn, SocSecAccounts)) = 1
    /\ Legs(txn, SocSecAccounts)[1].number = 0

\* ------------------------------------------------------------------------
\* Properties of the cadence generators
\* ------------------------------------------------------------------------

InvalidRange == seq_pc \in {"start", "loop", "done", "AssertionError", "ValueError"}
                    /\ seq_args.min > seq_args.max

\* C9, as claimed: with min > max neither generator yields a date nor
\* returns normally.
C9_InvalidRangeFails ==
    InvalidRange => yielded = <<>> /\ seq_pc # "done"

\* C9, amended: with min > max neither generator yields a date; date_seq
\* fails its assertion at its first step, delay_dates fails with the
\* ValueError of randint at the first upstream date, and returns normally
\* when the upstream sequence is empty.
C9_InvalidRangeFailsOnFirstDate ==
    InvalidRange =>
        /\ yielded = <<>>
        /\ seq_fn = "date_seq" => seq_pc \in {"start", "AssertionError"}
        /\ seq_fn = "delay_dates" =>
              \/ seq_pc = "start"
              \/ seq_pc = "ValueError" /\ seq_args.upstream # <<>>
              \/ seq_pc = "done" /\ seq_args.upstream = <<>>

\* A generator called with min > max has failed.
C9_Witness ==
    /\ seq_pc \in {"AssertionError", "ValueError"}
    /\ seq_args.min > seq_args.max

ValidDateSeq ==
    seq_fn = "date_seq" /\ 1 <= seq_args.min /\ seq_args.min <= seq_args.max

\* The date before the i-th yielded one.
Before(i) == IF i = 1 THEN seq_args.begin ELSE yielded[i - 1]

C10Inv ==
    ValidDateSeq =>
        /\ \A i \in 1..Len(yielded) :
              /\ yielded[i] - Before(i) >= seq_args.min
              /\ yielded[i] - Before(i) <= seq_args.max
              /\ Before(i) < seq_args.end
        /\ seq_args.begin >= seq_args.end => yielded = <<>>
        /\ seq_pc = "done" =>
              IF yielded = <<>> THEN seq_args.begin >= seq_args.end
              ELSE yielded[Len(yielded)] >= seq_args.end

\* C10: for 1 <= min <= max, date_seq yields dates that each exceed the one
\* before (the first: begin) by min to max days, yields only while the date
\* before is earlier than end, yields nothing when begin >= end, and returns
\* once the current date has reached end.
C10_DateSeqIncreasingFinite ==
    []C10Inv /\ (ValidDateSeq ~> seq_pc = "done")

\* date_seq has returned after yielding several dates, the last one past end.
C10_Witness ==
    /\ ValidDateSeq
    /\ seq_pc = "done"
    /\ Len(yielded) >= 2
    /\ yielded[Len(yielded)] > seq_args.end

\* ------------------------------------------------------------------------
\* Properties of main
\* ------------------------------------------------------------------------

Currencies(t) == {t.postings[i].currency : i \in 1..Len(t.postings)}

\* The sum of the numbers of the postings of t in one currency.
Residual(t, currency) ==
    SumNumbers(SelectSeq(t.postings, LAMBDA p : p.currency = currency))

\* C1: every transaction the generators emit balances: in each of its
\* currencies the numbers written into its postings add up to zero.
C1_TransactionsBalance ==
    txn # <<>> => \A currency \in Currencies(txn) : Residual(txn, currency) = 0

\* The payroll whose social security contribution is cut by the capacity,
\* after the retirement capacity was used up.
C1_Witness ==
    /\ txn # <<>>
    /\ txn.kind = "payroll"
    /\ Legs(txn, RetirementAccounts) = <<>>
    /\ Legs(txn, SocSecAccounts)[1].number \notin {0, Format2(socsec_uncapped)}

\* C2: the running balance of the checking account, replayed over the pad,
\* the payroll deposits, the expenses and the transfers in the order of
\* their dates, is strictly positive after every posting.
C2_CheckingPositive ==
    /\ nonneg
    /\ chk_balance > ZERO \/ (pending # <<>> /\ pending[1] = Pad)

\* The replay has read every posting, the transfers included.
C2_Witness ==
    /\ pc = "return"
    /\ pending = <<>>
    /\ pay_i > Len(transactions)
    /\ chk_balance > ZERO
    /\ chk_balance < balance + Num(Pad.number) + 1

\* The step is an iteration of the loop of generate_outgoing_transfers.
IsTransferStep == pay_i' # pay_i \/ (next_expense # <<>> /\ next_expense' = <<>>)

C4Step ==
    IsTransferStep =>
        LET current_amount == balance + Num(posting'.number)
        IN  IF current_amount > transfer_minimum + transfer_threshold
            THEN /\ txn' # <<>>
                 /\ txn'.kind = "transfer"
                 /\ txn'.date = posting'.date + 1
                 /\ Legs(txn', {account_checking})[1].number
                       = -Format2(current_amount - transfer_minimum)
                 /\ Legs(txn', {"Assets:CC:Investment:Cash"})[1].number
                       = Format2(current_amount - transfer_minimum)
                 /\ Len(pending') = Len(pending) + 2
                 /\ balance' = transfer_minimum
            ELSE /\ txn' = <<>>
                 /\ Len(pending') = Len(pending) + 1
                 /\ balance' = current_amount

\* C4: when the tracked balance is beyond transfer_minimum +
\* transfer_threshold after a posting, one transfer is written, dated the
\* day after the posting's entry, that moves the balance less
\* transfer_minimum, and the tracked balance becomes transfer_minimum;
\* otherwise no transfer is written; the tracked balance is never beyond
\* the bound at the end of an iteration.
C4_TransferAtThreshold ==
    [](balance <= transfer_minimum + transfer_threshold) /\ [][C4Step]_vars

\* A transfer has just been written.
C4_Witness ==
    /\ txn # <<>>
    /\ txn.kind = "transfer"
    /\ balance = transfer_minimum
    /\ posting # <<>>
    /\ txn.date = posting.date + 1

\* C5, as claimed: nothing is on standard output unless validate_output has
\* run and succeeded.
C5_NoOutputBeforeValidation ==
    stdout # "" => pc \in {"return", "done"}

\* C5, amended: nothing is written to standard output before every
\* generation step has succeeded; the whole document is then written before
\* validate_output runs.  A run that fails while generating leaves the
\* output empty; validation only ever runs, and fails, on a document that
\* is already written.
C5_OutputBeforeValidation ==
    /\ stdout # "" =>
          /\ "parser" \notin errors
          /\ pc \in {"validate", "return", "done", "raised"}
          /\ exc \in {"", "AssertionError"}
    /\ pc \in {"validate", "return", "done"} => stdout = "contents"
    /\ "loader" \in errors => stdout = "contents"
    /\ exc \in {"ValueError", "KeyError", "RuntimeError"} => stdout = ""
    /\ exc = "AssertionError" => stdout = "contents"

\* The document is on standard output and the loader has found errors in it.
C5_Witness ==
    /\ stdout = "contents"
    /\ "loader" \in errors

\* C6: when the parser or the loader has returned a non-empty error list,
\* main does not return 0.
C6_ErrorsAreFatal ==
    exit_code = 0 => errors = {}

\* ------------------------------------------------------------------------
\* Properties of generate_periodic_expenses
\* ------------------------------------------------------------------------

\* number, in hundredths, is amount rounded to 2 fractional digits.
RoundedTo2(number, amount) ==
    2 * Abs(number * (Unit \div 100) - amount) <= Unit \div 100

C11Inv ==
    pc \in {"expenses", "returned"} =>
        /\ Len(oss) + Len(date_iter) = Len(seq_args.date_iter)
        /\ \A i \in 1..Len(oss) :
              /\ oss[i].date = seq_args.date_iter[i]
              /\ Len(oss[i].postings) = 2
        /\ pc = "returned" => entries = oss /\ date_iter = <<>>

C11Step ==
    (pc = "expenses" /\ date_iter # <<>>) =>
        /\ Len(oss') = Len(oss) + 1
        /\ SubSeq(oss', 1, Len(oss)) = oss
        /\ LET debit == oss'[Len(oss')].postings[1]
               credit == oss'[Len(oss')].postings[2]
           IN  /\ debit.account = seq_args.account_from
               /\ credit.account = seq_args.account_to
               /\ RoundedTo2(credit.number, txn_amount')
               /\ debit.number = -credit.number
               /\ debit.currency = credit.currency
               /\ txn_amount' <= ZERO => credit.number <= 0

\* C11: generate_periodic_expenses writes one transaction of two legs for
\* each date of date_iter, in the order of the dates, and returns them; the
\* leg on account_to is the generated amount rounded to 2 fractional digits,
\* the leg on account_from is its negative, in the same currency, for every
\* generated amount, amounts at or below zero included, which are not
\* raised to zero.
C11_OneExpensePerDate == []C11Inv /\ [][C11Step]_vars

\* The generator has returned three transactions, one of a negative amount
\* that does not round to zero and one of the amount zero.
C11_Witness ==
    /\ pc = "returned"
    /\ Len(entries) = MaxDates
    /\ \E i \in 1..Len(entries) : entries[i].postings[2].number < 0
    /\ \E i \in 1..Len(entries) : entries[i].postings[2].number = 0

\* ------------------------------------------------------------------------
\* Properties of the tax years
\* ------------------------------------------------------------------------

\* The statutory limits of the years of the default range, in hundredths.
StatutoryLimit(year) ==
    CASE year = 2012 -> 1700000
      [] year \in {2013, 2014} -> 1750000
      [] year = 2015 -> 1800000

\* The transactions "Allowed contributions for one year" among entries.
Allowed(dirs) == SelectSeq(dirs, LAMBDA e : e.kind = "allowed")

C12Inv ==
    /\ \A i \in 1..Len(taxes) :
          LET year == taxes[i].year
              allowed == Allowed(taxes[i].entries)
              credit == Legs(allowed[1], {"Assets:CC:Federal:PreTax401k"})
          IN  /\ year = Year(date_begin) + i - 1
              /\ year \in 2012..2015
              /\ Len(allowed) = 1
              /\ allowed[1].date = YearStart(year)
              /\ Len(credit) = 1
              /\ credit[1].number = StatutoryLimit(year)
              /\ credit[1].currency = "DEFCCY"
    /\ (pc \in {"parse_banking", "write", "done"}) => Len(taxes) = 4

\* The first payroll of a year: what it contributes and what it leaves is
\* the limit of the year.
C12Step ==
    (pc = "income" /\ txn' # <<>> /\ NewYear(date_prev, txn'.date)) =>
        contrib_retirement'
            + (Unit \div 100) * SumNumbers(Legs(txn', {"Assets:CC:Retirement:Cash"}))
          = (Unit \div 100) * StatutoryLimit(Year(txn'.date))

\* C12: for the range 2012-01-01 to 2016-01-01 main generates the tax
\* accounts of the years 2012, 2013, 2014 and 2015, once each and in this
\* order, and of no other year; each holds one transaction "Allowed
\* contributions for one year", dated January 1 of the year, whose leg on
\* Assets:CC:Federal:PreTax401k is the statutory limit of the year, the
\* capacity the payroll starts that year with.
C12_AllowedContributionsPerYear == []C12Inv /\ [][C12Step]_vars

\* The tax accounts of the four years are generated.
C12_Witness ==
    /\ pc = "parse_banking"
    /\ Len(taxes) = 4
    /\ taxes[4].year = 2015

\* ------------------------------------------------------------------------
\* Properties of check_non_negative
\* ------------------------------------------------------------------------

\* The postings among the first k entries of the account.
Applied(k) ==
    SelectSeq(SubSeq(seq_args.postings, 1, k), LAMBDA p : p.kind = "Posting")

\* The running balance in currency c after the first k entries.
Running(c, k) == SumNumbers(SelectSeq(Applied(k), LAMBDA p : p.currency = c))

\* Some currency posted among the first k entries has a running balance
\* of zero or less.
NotPositive(k) ==
    \E i \in 1..Len(Applied(k)) : Running(Applied(k)[i].currency, k) <= 0

C13Step ==
    (pc = "check" /\ pending # <<>> /\ Head(pending).kind = "Posting") =>
        LET k == Len(seq_args.postings) - Len(pending')
        IN  /\ NotPositive(k) => pc' = "raised" /\ exc' = "AssertionError"
            /\ ~NotPositive(k) => pc' = "check"

C13Inv ==
    pc = "returned" => ~NotPositive(Len(seq_args.postings))

Element(k) == FirstThursday(date_begin) + 7 * k

\* The values yielded so far are the elements at the positions 0,
\* num_skip, 2 * num_skip, ... of the iterable, in order; once the generator
\* has ended, the next such position is past the end of the iterable.
C14_YieldsEveryNth ==
    pc \in {"skipiter", "returned", "raised"} =>
        /\ \A i \in 1..Len(yielded) :
              /\ yielded[i] = Element(seq_args.num_skip * (i - 1))
              /\ yielded[i] <= date_end
        /\ pc # "skipiter" => Element(seq_args.num_skip * Len(yielded)) > date_end
        /\ seq_args.num_skip = 2 =>
              \A i \in 2..Len(yielded) : yielded[i] - yielded[i - 1] = 14

\* C14: skipiter(iterable, num_skip) with num_skip > 0 yields the elements
\* at the positions 0, num_skip, 2 * num_skip, ... of the iterable, in order,
\* 14 days apart for num_skip = 2 on weekly dates, and ends without an
\* error when the iterable is exhausted, while fetching a value or while
\* skipping.
C14_SkipIterEndsNormally ==
    /\ C14_YieldsEveryNth
    /\ pc # "raised"

\* ------------------------------------------------------------------------
\* Properties of the retirement tracking account
\* ------------------------------------------------------------------------

\* The sum, in hundredths, of the legs on Assets:CC:Federal:PreTax401k of
\* the transactions among txns that are dated in year y.
RECURSIVE Tracking(_, _)
Tracking(txns, y) ==
    IF txns = <<>> THEN 0
    ELSE (IF Year(Head(txns).date) = y
          THEN SumNumbers(Legs(Head(txns), {"Assets:CC:Federal:PreTax401k"}))
          ELSE 0) + Tracking(Tail(txns), y)

\* The allowed contributions of the tax years generated so far.
AllowedSoFar == [i \in 1..Len(taxes) |-> Allowed(taxes[i].entries)[1]]

\* What the year y adds to the balance of Assets:CC:Federal:PreTax401k.
TrackingOfYear(y) == Tracking(AllowedSoFar, y) + Tracking(transactions, y)

\* The balance directives of the tax years generated so far.
Assertions ==
    {taxes[i].entries[j] : i \in 1..Len(taxes), j \in 1..2} \ {AllowedSoFar[i] : i \in 1..Len(taxes)}

C15Inv ==
    /\ pc \in {"taxes", "parse_banking"} =>
          /\ Len(transactions) > 0
          /\ \A b \in Assertions :
                /\ b.account = "Assets:CC:Federal:PreTax401k"
                /\ b.number = 0
                /\ b.date = YearStart(Year(b.date))
                /\ \A y \in Year(date_begin)..(Year(b.date) - 1) : TrackingOfYear(y) = b.number
    /\ pc = "parse_banking" =>
          \A y \in Year(date_begin)..(Year(date_end) - 1) :
             /\ Tracking(AllowedSoFar, y) > 0
             /\ TrackingOfYear(y) = 0
    /\ pc # "income" => contrib_retirement = ZERO

\* The first pay of a following year, and the end of the pay dates, find
\* the remaining capacity at zero.
C15Step ==
    (/\ pc = "income"
     /\ date_prev # NoDate
     /\ \/ txn' # <<>> /\ Year(txn'.date) # Year(date_prev)
        \/ pc' # "income") => contrib_retirement = ZERO

\* C15: with the defaults the retirement limit of each year is consumed
\* exactly: the remaining capacity is zero when the first pay of the next
\* year resets it and when the pay dates end, and the allowed contribution
\* of each year plus the legs of its payrolls on Assets:CC:Federal:PreTax401k
\* is 0, so that the balance of that account before each January 1 balance
\* assertion of generate_tax_accounts is the asserted 0.
C15_LimitsConsumedExactly == []C15Inv /\ [][C15Step]_vars

\* All tax years are generated after the 105 payrolls, the last of which
\* has no retirement leg left.
C15_Witness ==
    /\ pc = "parse_banking"
    /\ Len(taxes) = 4
    /\ Len(transactions) = 105
    /\ Legs(transactions[105], RetirementAccounts) = <<>>
    /\ Tracking(transactions, 2015) = -1800000

====
